---- MODULE Spec2Model ----
(***************************************************************************)
(* Model of the personal calendar / task manager (app.js, data-service,    *)
(* calendar-logic, firebase-setup): the document store, the mark-done      *)
(* round trips with their await points, the snapshot pushes, the           *)
(* navigation state and the month projection shown by the calendar.        *)
(***************************************************************************)
EXTENDS Integers, Sequences, FiniteSets, TLC

(***************************************************************************)
(* Bounds of the model.                                                    *)
(***************************************************************************)
\* number of mark-done calls that can be started in one behaviour
MaxCalls == 2
\* the calendar can be stepped over YearSpan + 1 years, from the year before
\* the clock's
YearSpan == 1
\* number of toasts that can be shown in one behaviour
MaxToasts == 2
\* number of snapshot listeners that can be registered on one collection
MaxListeners == 2
\* number of documents addDoc can create in one collection
MaxAdded == 2

(***************************************************************************)
(* JavaScript values.                                                      *)
(***************************************************************************)
\* a string field a document does not carry
Undefined == "undefined"
\* a date field a document does not carry (date strings are triples)
NoDate == <<>>
\* a document id with no document behind it (docSnap.exists() is false)
NoDoc == [exists |-> FALSE]
\* null, where an entity is expected
Null == [null |-> TRUE]
\* no updateDoc is issued
NoWrite == [nothing |-> TRUE]

SeqToSet(s) == {s[i] : i \in DOMAIN s}
Includes(s, x) == \E i \in DOMAIN s : s[i] = x
Count(s, x) == Cardinality({i \in DOMAIN s : s[i] = x})

(***************************************************************************)
(* Calendar arithmetic of the JavaScript Date object.  A date string       *)
(* 'YYYY-MM-DD' is the triple <<year, month 1..12, day>>; a Date object is *)
(* the record [y, m, d] with m the 0-indexed month.                        *)
(***************************************************************************)
IsLeapYear(y) == (y % 4 = 0) /\ ((y % 100 # 0) \/ (y % 400 = 0))

MonthLength(y, m) ==
    IF m = 1 THEN (IF IsLeapYear(y) THEN 29 ELSE 28)
    ELSE IF m \in {3, 5, 8, 10} THEN 30 ELSE 31

\* new Date(year, monthIndex, day): month and day overflow are carried
RECURSIVE NewDate(_, _, _)
NewDate(y, m, d) ==
    IF m > 11 THEN NewDate(y + 1, m - 12, d)
    ELSE IF m < 0 THEN NewDate(y - 1, m + 12, d)
    ELSE IF d < 1 THEN
        (IF m = 0 THEN NewDate(y - 1, 11, d + 31)
         ELSE NewDate(y, m - 1, d + MonthLength(y, m - 1)))
    ELSE IF d > MonthLength(y, m) THEN NewDate(y, m + 1, d - MonthLength(y, m))
    ELSE [y |-> y, m |-> m, d |-> d]

\* day 0 of the month itself: the last day of the month before
daysInMonth_SameMonth(year, month) == NewDate(year, month, 0).d

daysInMonth(year, month) == NewDate(year, month + 1, 0).d

\* days of the year before the 0-indexed month m
RECURSIVE DaysBeforeMonth(_, _)
DaysBeforeMonth(y, m) ==
    IF m = 0 THEN 0 ELSE DaysBeforeMonth(y, m - 1) + MonthLength(y, m - 1)

\* Date's day number: days since 1970-01-01, a Thursday
DayFromYear(y) ==
    365 * (y - 1970) + ((y - 1969) \div 4) - ((y - 1901) \div 100)
        + ((y - 1601) \div 400)

MakeDay(date) == DayFromYear(date.y) + DaysBeforeMonth(date.y, date.m) + date.d - 1

\* Date.prototype.getDay: 0 for Sunday .. 6 for Saturday
getDay(date) == (MakeDay(date) + 4) % 7

\* a weekday numbered from Monday
firstDayOfMonth_FromMonday(year, month) == (getDay(NewDate(year, month, 1)) + 6) % 7

firstDayOfMonth(year, month) == getDay(NewDate(year, month, 1))

\* the date string built from the 0-indexed month as it is
DateString_ZeroIndexed(year, month, day) == <<year, month, day>>

\* `${year}-${String(month + 1).padStart(2,'0')}-${String(day).padStart(2,'0')}`
DateString(year, month, day) == <<year, month + 1, day>>

changeCalendarMonth(offset, currentDate) ==
    NewDate(currentDate.y, currentDate.m + offset, currentDate.d)

changeCalendarYear(offset, currentDate) ==
    NewDate(currentDate.y + offset, currentDate.m, currentDate.d)

(***************************************************************************)
(* Documents of the store.  Events and tasks share one duck-typed shape.   *)
(* The form modals write date / dueDate and completedOccurrences, the      *)
(* import and the detail views use startDate, endDate, recurrence,         *)
(* isCompleted and completedOccurrencesDates.  A missing date is NoDate, a *)
(* missing recurrence Undefined; a missing isCompleted reads as false and  *)
(* a missing array as [] everywhere the code reads them (`x || []`,        *)
(* `Array.isArray(x) ? x : []`, truthiness), so they are FALSE and <<>>.   *)
(* updatedAt / createdAt carry no completion state and are left out.       *)
(***************************************************************************)
BlankDoc ==
    [date |-> NoDate, dueDate |-> NoDate, startDate |-> NoDate,
     endDate |-> NoDate, recurrence |-> Undefined, isCompleted |-> FALSE,
     completedOccurrencesDates |-> <<>>, completedOccurrences |-> <<>>]

ImportedDoc(recurrence, startDate, endDate) ==
    [BlankDoc EXCEPT !.recurrence = recurrence, !.startDate = startDate,
                     !.endDate = endDate, !.isCompleted = FALSE,
                     !.completedOccurrencesDates = <<>>]

DailyDoc   == ImportedDoc("daily",   <<2025, 3, 1>>,  <<2025, 3, 3>>)
WeeklyDoc  == ImportedDoc("weekly",  <<2025, 1, 1>>,  NoDate)
MonthlyDoc == ImportedDoc("monthly", <<2025, 1, 31>>, NoDate)
SingleDoc  == ImportedDoc("none",    <<2025, 3, 2>>,  NoDate)
YearlyDoc  == ImportedDoc("yearly",  <<2024, 2, 29>>, NoDate)
\* an event created by the event form: title, description, date, time
FormEventDoc == [BlankDoc EXCEPT !.date = <<2025, 3, 2>>, !.completedOccurrences = <<>>]
\* a task created by the task form: title, description, dueDate, dueTime
FormTaskDoc  == [BlankDoc EXCEPT !.dueDate = <<2025, 3, 2>>, !.completedOccurrences = <<>>]
\* an imported daily event later saved through the event form (updateDoc merges)
EditedDoc == [DailyDoc EXCEPT !.date = <<2025, 3, 2>>, !.completedOccurrences = <<>>]

EventIds == <<"e1", "e2">>
TaskIds  == <<"t1">>
IdsOf(type) == IF type = "event" THEN EventIds ELSE TaskIds
Types == {"event", "task"}

\* data.recurrence && data.recurrence !== 'none'
IsRecurring(data) == data.recurrence # Undefined /\ data.recurrence # "none"

VARIABLES
    store,      \* store[type][id]: the document, or NoDoc
    store0,     \* history: the store of the initial state
    today,      \* the clock: [local |-> date string, utc |-> date string]
    calls,      \* calls[c]: one mark-done round trip and where it stands
    confirmModal, \* the confirm modal: ClosedModal, or the pending mark-done request
    dsEvents,   \* data-service `events`: what getEvents() returns
    dsTasks,    \* data-service `tasks`: what getTasks() returns
    appEvents,  \* app.js `events`
    appTasks,   \* app.js `tasks`
    lastPushed, \* history: per type, the last snapshot pushed and the one before
    currentView,         \* app.js `currentView`
    currentTab,          \* app.js `currentTab`
    currentCalendarDate, \* app.js `currentCalendarDate`, a Date object
    selectedEvent,       \* app.js `selectedEvent` (Null when none)
    selectedTask,        \* app.js `selectedTask` (Null when none)
    presented,           \* what the last renderApp() left on the page
    dayDetail,           \* what the last click on a day cell of the calendar left
    authUser,            \* firebase `auth.currentUser`: a uid, or NoUser
    userId,              \* firebase-setup `userId`
    signInPending,       \* an anonymous sign-in started by the auth listener is in flight
    listeners,           \* listeners[type]: the uids of the active onSnapshot listeners
    showEventFormModalState,    \* ui-components modal state, under the source's names
    editingEventState,
    showTaskFormModalState,
    editingTaskState,
    showImportExportModalState,
    dateForNewEntry,     \* app.js `dateForNewEntry`
    toasts,              \* the children of #toast-container, oldest first
    toastsShown,         \* number of toasts created so far
    notificationTimeoutId, \* ui-components `notificationTimeoutId` and whether it is pending
    added,               \* added[type]: the documents created by addDoc, oldest first
    saveCall,            \* the saveEvent / saveTask call started by a form, and where it stands
    importCall           \* the importAllData call, and where it stands

markVars == <<store, store0, today, calls, confirmModal>>
dataVars == <<dsEvents, dsTasks, appEvents, appTasks, lastPushed>>
viewVars == <<currentView, currentTab, currentCalendarDate, selectedEvent,
              selectedTask, presented, dayDetail>>
authVars == <<authUser, userId, signInPending, listeners>>
modalVars == <<showEventFormModalState, editingEventState, showTaskFormModalState,
               editingTaskState, showImportExportModalState, dateForNewEntry>>
toastVars == <<toasts, toastsShown, notificationTimeoutId>>
writeVars == <<added, saveCall, importCall>>
sessionVars == <<authVars, modalVars, toastVars, writeVars>>
vars == <<store, store0, today, calls, confirmModal, dsEvents, dsTasks, appEvents,
          appTasks, lastPushed, currentView, currentTab, currentCalendarDate,
          selectedEvent, selectedTask, presented, dayDetail, authVars, modalVars,
          toastVars, writeVars>>

\* no user: auth.currentUser is null, userId is undefined
NoUser == "none"
\* the account whose collections `store` and `added` hold
Owner == "u1"
\* the user signInAnonymously creates; its collections are empty
Anonymous == "anon"
\* crypto.randomUUID(), the user id taken when the anonymous sign-in fails
RandomUUID == "uuid"
\* notificationTimeoutId before the first toast
NoTimeout == [id |-> 0, pending |-> FALSE]

\* the years the year and month buttons are pressed over
Years == (today.local[1] - 1) .. (today.local[1] - 1 + YearSpan)

CallIds == 1 .. MaxCalls

ClosedModal == [open |-> FALSE, type |-> "none", id |-> "none", date |-> NoDate]

IdleCall ==
    [pc |-> "idle", entry |-> "none", type |-> "none", id |-> "none",
     date |-> NoDate, snap |-> NoDoc, payload |-> NoWrite,
     pre |-> NoDoc, post |-> NoDoc, wrote |-> FALSE, toast |-> "none"]

\* the next free call record: calls are numbered in the order they start
FreeCall == CHOOSE c \in CallIds :
                calls[c].pc = "idle" /\ \A b \in CallIds : b < c => calls[b].pc # "idle"
HasFreeCall == \E c \in CallIds : calls[c].pc = "idle"

(***************************************************************************)
(* Firestore primitives.                                                   *)
(***************************************************************************)
\* getDoc(ref): the snapshot of the document as it is now
getDoc(type, id) == store[type][id]

\* the fields updateDoc(ref, fields) leaves in an existing document: the
\* given fields replace the stored ones, the others are kept
\* a write that appends to the stored arrays instead of replacing them
MergeFields_Append(old, fields) ==
    [f \in DOMAIN old |->
        IF f \notin DOMAIN fields THEN old[f]
        ELSE IF f \in {"completedOccurrencesDates", "completedOccurrences"}
        THEN old[f] \o fields[f]
        ELSE fields[f]]

MergeFields(old, fields) ==
    [f \in DOMAIN old |-> IF f \in DOMAIN fields THEN fields[f] ELSE old[f]]

(***************************************************************************)
(* handleMarkDoneClick: the fields written after the document was read.    *)
(* NoWrite stands for "no updateDoc is issued".                            *)
(***************************************************************************)
\* the same without the includes() test
ClickPayload_NoCheck(data, occurrenceDate) ==
    IF IsRecurring(data)
    THEN [completedOccurrencesDates |->
              Append(data.completedOccurrencesDates, occurrenceDate)]
    ELSE [isCompleted |-> TRUE]

ClickPayload(data, occurrenceDate) ==
    IF IsRecurring(data)
    THEN LET currentCompletedDates == data.completedOccurrencesDates
         IN  IF ~Includes(currentCompletedDates, occurrenceDate)
             THEN [completedOccurrencesDates |->
                       Append(currentCompletedDates, occurrenceDate)]
             ELSE NoWrite
    ELSE [isCompleted |-> TRUE]

(***************************************************************************)
(* markEventOccurrenceDone / markTaskOccurrenceDone: same, for today.      *)
(***************************************************************************)
OccurrencePayload(data, todayDate) ==
    LET completedOccurrences == data.completedOccurrences
    IN  IF ~Includes(completedOccurrences, todayDate)
        THEN [completedOccurrences |-> Append(completedOccurrences, todayDate)]
        ELSE NoWrite

(***************************************************************************)
(* The step of a mark-done call after `await getDoc` returns: the document *)
(* is missing (toast, or nothing at all), nothing is left to write (toast) *)
(* or an updateDoc is issued with the array built from the document read.  *)
(***************************************************************************)
PayloadFor(call, snap, todayDate) ==
    IF call.entry = "click" THEN ClickPayload(snap, call.date)
    ELSE OccurrencePayload(snap, todayDate)

\* what the caller is shown when the document does not exist
NotFoundToast(entry) == IF entry = "click" THEN "notFound" ELSE "none"

\* what the caller is shown when the occurrence is already recorded
NoWriteToast(entry) == IF entry = "click" THEN "success" ELSE "info"

CallAfterGetDoc(call, snap, todayDate) ==
    LET date == IF call.entry = "click" THEN call.date ELSE todayDate
        seen == [call EXCEPT !.snap = snap, !.date = date]
    IN  IF snap = NoDoc
        THEN [seen EXCEPT !.pc = "done", !.toast = NotFoundToast(call.entry),
                          !.post = snap]
        ELSE IF PayloadFor(call, snap, todayDate) = NoWrite
        THEN [seen EXCEPT !.pc = "done", !.toast = NoWriteToast(call.entry),
                          !.post = snap]
        ELSE [seen EXCEPT !.pc = "updateDoc",
                          !.payload = PayloadFor(call, snap, todayDate)]

\* updateDoc(ref, fields) rejects when the document does not exist
UpdateDocRejects(type, id) == store[type][id] = NoDoc

CallAfterUpdateDoc(call, written) ==
    IF written = NoDoc
    THEN [call EXCEPT !.pc = "done", !.toast = "failed", !.post = NoDoc]
    ELSE [call EXCEPT !.pc = "done", !.toast = "success", !.wrote = TRUE,
                      !.post = written]

(***************************************************************************)
(* Mark-done entry points.                                                 *)
(***************************************************************************)
\* the dates a mark-done button can carry in data-start-date
ButtonDates == {today.utc, <<2025, 3, 2>>}

\* handleMarkDoneClick(targetButton): opens the confirm modal
HandleMarkDoneClick(type, id, occurrenceDate) ==
    /\ HasFreeCall
    /\ confirmModal' = [open |-> TRUE, type |-> type, id |-> id,
                        date |-> occurrenceDate]
    /\ UNCHANGED <<sessionVars, store, store0, today, calls, dataVars, viewVars>>

\* 'Cancel' of the confirm modal: onCancelCallback(); closeModal()
CancelMarkDone ==
    /\ confirmModal.open
    /\ confirmModal' = ClosedModal
    /\ UNCHANGED <<sessionVars, store, store0, today, calls, dataVars, viewVars>>

\* 'Yes, Mark Done': the async callback runs up to `await getDoc(docRef)`
ConfirmMarkDone ==
    /\ confirmModal.open
    /\ HasFreeCall
    /\ calls' = [calls EXCEPT ![FreeCall] =
                    [IdleCall EXCEPT !.pc = "getDoc", !.entry = "click",
                                     !.type = confirmModal.type,
                                     !.id = confirmModal.id,
                                     !.date = confirmModal.date,
                                     !.pre = store[confirmModal.type][confirmModal.id]]]
    /\ confirmModal' = ClosedModal
    /\ UNCHANGED <<sessionVars, store, store0, today, dataVars, viewVars>>

\* markEventOccurrenceDone(id) / markTaskOccurrenceDone(id) up to `await getDoc`
StartOccurrenceDone(type, id) ==
    /\ HasFreeCall
    /\ calls' = [calls EXCEPT ![FreeCall] =
                    [IdleCall EXCEPT !.pc = "getDoc",
                                     !.entry = IF type = "event" THEN "eventOcc"
                                               ELSE "taskOcc",
                                     !.type = type, !.id = id,
                                     !.pre = store[type][id]]]
    /\ UNCHANGED <<sessionVars, store, store0, today, confirmModal, dataVars, viewVars>>

markEventOccurrenceDone(id) == StartOccurrenceDone("event", id)
markTaskOccurrenceDone(id)  == StartOccurrenceDone("task", id)

\* the continuation of a call after `await getDoc`
GetDocReturns(c) ==
    /\ calls[c].pc = "getDoc"
    /\ calls' = [calls EXCEPT ![c] =
                    CallAfterGetDoc(calls[c], getDoc(calls[c].type, calls[c].id),
                                    today.local)]
    /\ UNCHANGED <<sessionVars, store, store0, today, confirmModal, dataVars, viewVars>>

\* the write reaching the store, and the continuation after `await updateDoc`
UpdateDocReturns(c) ==
    /\ calls[c].pc = "updateDoc"
    /\ LET type == calls[c].type
           id == calls[c].id
           written == IF UpdateDocRejects(type, id) THEN NoDoc
                      ELSE MergeFields(store[type][id], calls[c].payload)
       IN  /\ store' = IF written = NoDoc THEN store
                       ELSE [store EXCEPT ![type][id] = written]
           /\ calls' = [calls EXCEPT ![c] = CallAfterUpdateDoc(calls[c], written)]
    /\ UNCHANGED <<sessionVars, store0, today, confirmModal, dataVars, viewVars>>

(***************************************************************************)
(* Snapshots: snapshot.docs.map(doc => ({ id: doc.id, ...doc.data() })).   *)
(***************************************************************************)
WithId(id, data) ==
    [f \in DOMAIN data \cup {"id"} |-> IF f = "id" THEN id ELSE data[f]]

\* the ids addDoc generates, in the order it generates them
AutoIds == <<"a1", "a2", "a3", "a4">>

\* the owner's collection: the documents of `store`, then those addDoc created
Snapshot(type) ==
    LET ids == SelectSeq(IdsOf(type), LAMBDA i : store[type][i] # NoDoc)
        auto == SelectSeq([k \in 1 .. Len(added[type]) |-> k],
                          LAMBDA k : added[type][k] # NoDoc)
    IN  [k \in 1 .. Len(ids) |-> WithId(ids[k], store[type][ids[k]])]
        \o [k \in 1 .. Len(auto) |-> WithId(AutoIds[auto[k]], added[type][auto[k]])]

\* the collection of a user: every user but the owner has stored nothing
UserDocs(uid, type) == IF uid = Owner THEN Snapshot(type) ELSE <<>>

(***************************************************************************)
(* calendar-logic: the month projection.  An event is put on the day whose *)
(* date string equals event.date, a task on the day equal to task.dueDate. *)
(***************************************************************************)
\* { type: 'event', ...event }
Tagged(type, entity) ==
    [f \in DOMAIN entity \cup {"type"} |-> IF f = "type" THEN type ELSE entity[f]]

TagAll(type, entities) == [k \in DOMAIN entities |-> Tagged(type, entities[k])]

generateOccurrencesForMonth(year, month, allEvents, allTasks) ==
    LET days == daysInMonth(year, month)
        dateStrings == {DateString(year, month, day) : day \in 1 .. days}
        taggedEvents == TagAll("event", allEvents)
        taggedTasks == TagAll("task", allTasks)
    IN  [dateString \in dateStrings |->
            SelectSeq(taggedEvents, LAMBDA e : e.date = dateString)
            \o SelectSeq(taggedTasks, LAMBDA t : t.dueDate = dateString)]

(***************************************************************************)
(* renderApp: what is on the page after a render.                          *)
(***************************************************************************)
\* renderEventDetailContent / renderTaskDetailContent: showMarkDone
ShowMarkDone(selected) == ~(selected.recurrence = "none" /\ selected.isCompleted)

\* the 'Mark Today's Occurrence Done' button: data-original-id, data-type and
\* data-start-date = new Date().toISOString().split('T')[0]
DetailButton(type, selected, clock) ==
    [shown |-> ShowMarkDone(selected), type |-> type, id |-> selected.id,
     date |-> clock.utc]

\* the keys of the occurrences object, in the order the loop inserts them
OccurrenceKeys(year, month) ==
    [day \in 1 .. daysInMonth(year, month) |-> DateString(year, month, day)]

\* dayOccurrences.some(o => o.type === type)
HasType(dayOccurrences, type) ==
    \E i \in DOMAIN dayOccurrences : dayOccurrences[i].type = type

\* renderCalendarView: the cells of the month grid, in document order; the
\* classes of a cell (today's highlight) are left out
GridOf(year, month, occurrences) ==
    LET firstDay == firstDayOfMonth(year, month)
        daysInCurrentMonth == daysInMonth(year, month)
        DayCell(day) ==
            LET dateString == DateString(year, month, day)
                dayOccurrences == IF dateString \in DOMAIN occurrences
                                  THEN occurrences[dateString] ELSE <<>>
            IN  [blank |-> FALSE, day |-> day, date |-> dateString,
                 hasEvents |-> HasType(dayOccurrences, "event"),
                 hasTasks |-> HasType(dayOccurrences, "task")]
    IN  [i \in 1 .. firstDay |->
            [blank |-> TRUE, day |-> 0, date |-> NoDate,
             hasEvents |-> FALSE, hasTasks |-> FALSE]]
        \o [day \in 1 .. daysInCurrentMonth |-> DayCell(day)]

CalendarGrid(year, month, events, tasks) ==
    GridOf(year, month, generateOccurrencesForMonth(year, month, events, tasks))

\* renderCalendarViewContent -> renderCalendarView(currentCalendarDate, events, tasks)
CalendarPage(date, events, tasks) ==
    LET occurrences == generateOccurrencesForMonth(date.y, date.m, events, tasks)
    IN  [kind |-> "calendar", year |-> date.y, month |-> date.m,
         occurrences |-> occurrences,
         keys |-> OccurrenceKeys(date.y, date.m),
         grid |-> GridOf(date.y, date.m, occurrences)]

\* renderListViewContent calls generateOccurrencesForMonth(events, 'event', year,
\* month): the array lands in `year` and 'event' in `month`, daysInMonth is NaN,
\* the loop body never runs and the result is the empty object {}, on which
\* .sort is not a function: the render throws before it writes the list
ListPage == [kind |-> "listTypeError"]

DetailPage(type, selected, clock) ==
    IF selected = Null
    THEN [kind |-> "notFound", type |-> type]
    ELSE [kind |-> "detail", type |-> type, entity |-> selected,
          button |-> DetailButton(type, selected, clock)]

\* renderApp: if (!auth || !auth.currentUser) currentView = 'loading'
AuthChecked(user, view) == IF user = NoUser THEN "loading" ELSE view

RenderApp(view, tab, date, events, tasks, selEvent, selTask, clock) ==
    IF view = "landing"
    THEN (IF tab = "calendar" THEN CalendarPage(date, events, tasks) ELSE ListPage)
    ELSE IF view = "eventDetail" THEN DetailPage("event", selEvent, clock)
    ELSE IF view = "taskDetail" THEN DetailPage("task", selTask, clock)
    ELSE IF view = "auth" THEN [kind |-> "auth"]
    ELSE [kind |-> "spinner"]

(***************************************************************************)
(* Snapshot pushes: the onSnapshot callback of fetchEvents / fetchTasks,   *)
(* and the app's handleUpdateEvents / handleUpdateTasks it calls.          *)
(***************************************************************************)
\* a callback that patches the collection instead of replacing it
handleUpdateEvents_Merge(newEvents) ==
    /\ appEvents' = appEvents \o newEvents
    /\ currentView' = AuthChecked(authUser, currentView)
    /\ presented' = RenderApp(currentView', currentTab, currentCalendarDate,
                              appEvents', appTasks, selectedEvent, selectedTask, today)

\* a callback that stores the collection and does not render
handleUpdateEvents_NoRender(newEvents) ==
    /\ appEvents' = newEvents
    /\ currentView' = currentView
    /\ presented' = presented

handleUpdateEvents(newEvents) ==
    /\ appEvents' = newEvents
    /\ currentView' = AuthChecked(authUser, currentView)
    /\ presented' = RenderApp(currentView', currentTab, currentCalendarDate,
                              newEvents, appTasks, selectedEvent, selectedTask, today)

handleUpdateTasks(newTasks) ==
    /\ appTasks' = newTasks
    /\ currentView' = AuthChecked(authUser, currentView)
    /\ presented' = RenderApp(currentView', currentTab, currentCalendarDate,
                              appEvents, newTasks, selectedEvent, selectedTask, today)

\* the push replaces a collection pushed earlier, not empty and not the same
Replaced(last, fetched) == last.pushed /\ last.docs # <<>> /\ last.docs # fetched

\* the onSnapshot callback of a listener fetchEvents registered for `uid`
PushEventsOf(uid) ==
    LET fetchedEvents == UserDocs(uid, "event")
    IN  /\ Includes(listeners.event, uid)
        /\ dsEvents' = fetchedEvents
        /\ handleUpdateEvents(fetchedEvents)
        /\ lastPushed' = [lastPushed EXCEPT !.event = [pushed |-> TRUE,
                                                       docs |-> fetchedEvents,
                                                       replaced |-> Replaced(@, fetchedEvents),
                                                       uid |-> uid]]
        /\ UNCHANGED <<sessionVars, markVars, dsTasks, appTasks, currentTab,
                       currentCalendarDate, selectedEvent, selectedTask, dayDetail>>

PushTasksOf(uid) ==
    LET fetchedTasks == UserDocs(uid, "task")
    IN  /\ Includes(listeners.task, uid)
        /\ dsTasks' = fetchedTasks
        /\ handleUpdateTasks(fetchedTasks)
        /\ lastPushed' = [lastPushed EXCEPT !.task = [pushed |-> TRUE,
                                                      docs |-> fetchedTasks,
                                                      replaced |-> Replaced(@, fetchedTasks),
                                                      uid |-> uid]]
        /\ UNCHANGED <<sessionVars, markVars, dsEvents, appEvents, currentTab,
                       currentCalendarDate, selectedEvent, selectedTask, dayDetail>>

\* the pushes of the owner's listeners
PushEvents == PushEventsOf(Owner)
PushTasks  == PushTasksOf(Owner)

\* deleteEvent(id) / deleteTask(id): deleteDoc of the document
DeleteDoc(type, id) ==
    /\ store[type][id] # NoDoc
    /\ store' = [store EXCEPT ![type][id] = NoDoc]
    /\ UNCHANGED <<sessionVars, store0, today, calls, confirmModal, dataVars, viewVars>>

deleteEvent(id) == DeleteDoc("event", id)
deleteTask(id)  == DeleteDoc("task", id)

(***************************************************************************)
(* Navigation and the calendar controls of the landing page.               *)
(***************************************************************************)
Render(view, tab, date, selEvent, selTask) ==
    presented' = RenderApp(view, tab, date, appEvents, appTasks, selEvent, selTask,
                           today)

\* data.startDate || null, for the data the buttons pass: nothing, or an entity
StartDateOf(data) == IF data = Null THEN NoDate ELSE data.startDate

\* navigateTo(view, data): the view is assigned whatever the target is; the
\* targets newEvent, editEvent, newTask, editTask and importExport also open a
\* modal (openEventFormModal, openTaskFormModal, openImportExportModal); the
\* modal containers are rendered from the modal state by every renderApp
navigateTo(view, data) ==
    /\ currentView' = AuthChecked(authUser, view)
    /\ selectedEvent' = IF view = "eventDetail" THEN data ELSE Null
    /\ selectedTask' = IF view = "taskDetail" THEN data ELSE Null
    /\ dateForNewEntry' = IF view \in {"newEvent", "newTask"} THEN StartDateOf(data)
                          ELSE dateForNewEntry
    /\ showEventFormModalState' = (view \in {"newEvent", "editEvent"}
                                   \/ showEventFormModalState)
    /\ editingEventState' = IF view = "newEvent" THEN Null
                            ELSE IF view = "editEvent" THEN data
                            ELSE editingEventState
    /\ showTaskFormModalState' = (view \in {"newTask", "editTask"}
                                  \/ showTaskFormModalState)
    /\ editingTaskState' = IF view = "newTask" THEN Null
                           ELSE IF view = "editTask" THEN data
                           ELSE editingTaskState
    /\ showImportExportModalState' = (view = "importExport"
                                      \/ showImportExportModalState)
    /\ Render(currentView', currentTab, currentCalendarDate, selectedEvent',
              selectedTask')
    /\ UNCHANGED <<authVars, toastVars, writeVars, markVars, dataVars, currentTab,
                   currentCalendarDate, dayDetail>>

\* events.find(e => e.id === originalId): the entity, or undefined
FindById(entities, id) ==
    IF \E k \in DOMAIN entities : entities[k].id = id
    THEN entities[CHOOSE k \in DOMAIN entities :
                      entities[k].id = id
                      /\ \A j \in DOMAIN entities : entities[j].id = id => k <= j]
    ELSE Null

OpenEventDetail(id) == navigateTo("eventDetail", FindById(appEvents, id))
OpenTaskDetail(id)  == navigateTo("taskDetail", FindById(appTasks, id))
BackToLanding       == navigateTo("landing", Null)

SetCalendarDate(newDate) ==
    /\ currentView = "landing"
    /\ newDate.y \in Years
    /\ currentCalendarDate' = newDate
    /\ currentView' = AuthChecked(authUser, currentView)
    /\ Render(currentView', currentTab, newDate, selectedEvent, selectedTask)
    /\ UNCHANGED <<sessionVars, markVars, dataVars, currentTab, selectedEvent,
                   selectedTask, dayDetail>>

PrevYear  == SetCalendarDate(changeCalendarYear(-1, currentCalendarDate))
NextYear  == SetCalendarDate(changeCalendarYear(1, currentCalendarDate))
PrevMonth == SetCalendarDate(changeCalendarMonth(-1, currentCalendarDate))
NextMonth == SetCalendarDate(changeCalendarMonth(1, currentCalendarDate))

\* new Date(), at day granularity
DateOfString(dateString) ==
    [y |-> dateString[1], m |-> dateString[2] - 1, d |-> dateString[3]]

TodayButton == SetCalendarDate(DateOfString(today.local))

SelectTab(tab) ==
    /\ currentView = "landing"
    /\ currentTab' = tab
    /\ currentView' = AuthChecked(authUser, currentView)
    /\ Render(currentView', tab, currentCalendarDate, selectedEvent, selectedTask)
    /\ UNCHANGED <<sessionVars, markVars, dataVars, currentCalendarDate,
                   selectedEvent, selectedTask, dayDetail>>

\* the detail view's 'Mark Today's Occurrence Done' button, as last rendered
DetailMarkDoneClick ==
    /\ presented.kind = "detail"
    /\ presented.button.shown
    /\ HandleMarkDoneClick(presented.button.type, presented.button.id,
                           presented.button.date)

(***************************************************************************)
(* The click on a day cell of the calendar (dayCell.onclick).              *)
(***************************************************************************)
NoDayDetail == [status |-> "none", date |-> NoDate, events |-> <<>>, tasks |-> <<>>]

\* generateOccurrencesForMonth(allEvents, 'event', year, month) binds the array
\* to `year` and 'event' to `month`: daysInMonth is NaN, the loop body never
\* runs and the result is the empty object {}, which has no .filter: the
\* handler throws a TypeError before renderDayDetailsModal is called
DayDetailQuery(dayDateStr, allEvents, allTasks) ==
    [status |-> "TypeError", date |-> dayDateStr, events |-> <<>>, tasks |-> <<>>]

DayClick(day) ==
    /\ presented.kind = "calendar"
    /\ day \in 1 .. daysInMonth(currentCalendarDate.y, currentCalendarDate.m)
    /\ dayDetail' = DayDetailQuery(
                        DateString(currentCalendarDate.y, currentCalendarDate.m, day),
                        dsEvents, dsTasks)
    /\ UNCHANGED <<sessionVars, markVars, dataVars, currentView, currentTab,
                   currentCalendarDate, selectedEvent, selectedTask, presented>>

(***************************************************************************)
(* Initial state: the page is loaded, the user is signed in and both       *)
(* snapshot listeners are registered; nothing was pushed yet.              *)
(***************************************************************************)
(***************************************************************************)
(* Toasts.  showToast cancels the timer of the toast before, appends a     *)
(* toast to #toast-container and starts the timer that removes that toast. *)
(***************************************************************************)
showToast(message, type) ==
    /\ toastsShown < MaxToasts
    /\ toastsShown' = toastsShown + 1
    /\ toasts' = Append(toasts, [n |-> toastsShown + 1, message |-> message,
                                 type |-> type])
    /\ notificationTimeoutId' = [id |-> toastsShown + 1, pending |-> TRUE]

\* the setTimeout callback: toast.remove()
ToastTimeout ==
    /\ notificationTimeoutId.pending
    /\ toasts' = SelectSeq(toasts, LAMBDA t : t.n # notificationTimeoutId.id)
    /\ notificationTimeoutId' = [notificationTimeoutId EXCEPT !.pending = FALSE]
    /\ UNCHANGED <<markVars, dataVars, viewVars, authVars, modalVars, writeVars,
                   toastsShown>>

\* exportJsonBtn.onclick: the text area is filled and a toast is shown
ExportJsonClick ==
    /\ showImportExportModalState
    /\ showToast("Data exported as JSON! Copy from the text area.", "success")
    /\ UNCHANGED <<markVars, dataVars, viewVars, authVars, modalVars, writeVars>>

(***************************************************************************)
(* The modals of ui-components.  Every function that changes the modal     *)
(* state ends with renderAppCallback(), which is app.js renderApp.         *)
(***************************************************************************)
\* renderApp() with the collections and the selection as they are
renderApp ==
    /\ currentView' = AuthChecked(authUser, currentView)
    /\ Render(currentView', currentTab, currentCalendarDate, selectedEvent,
              selectedTask)

closeEventFormModal ==
    /\ showEventFormModalState
    /\ showEventFormModalState' = FALSE
    /\ editingEventState' = Null
    /\ renderApp
    /\ UNCHANGED <<markVars, dataVars, authVars, toastVars, writeVars, currentTab,
                   currentCalendarDate, selectedEvent, selectedTask, dayDetail,
                   showTaskFormModalState, editingTaskState,
                   showImportExportModalState, dateForNewEntry>>

closeTaskFormModal ==
    /\ showTaskFormModalState
    /\ showTaskFormModalState' = FALSE
    /\ editingTaskState' = Null
    /\ renderApp
    /\ UNCHANGED <<markVars, dataVars, authVars, toastVars, writeVars, currentTab,
                   currentCalendarDate, selectedEvent, selectedTask, dayDetail,
                   showEventFormModalState, editingEventState,
                   showImportExportModalState, dateForNewEntry>>

\* the close button of the import / export modal
closeImportExportModal ==
    /\ showImportExportModalState
    /\ showImportExportModalState' = FALSE
    /\ renderApp
    /\ UNCHANGED <<markVars, dataVars, authVars, toastVars, writeVars, currentTab,
                   currentCalendarDate, selectedEvent, selectedTask, dayDetail,
                   showEventFormModalState, editingEventState,
                   showTaskFormModalState, editingTaskState, dateForNewEntry>>

\* the buttons of the landing page and of the detail views that open a modal
NewEventClick     == presented.kind \in {"calendar", "listTypeError"}
                     /\ navigateTo("newEvent", Null)
NewTaskClick      == presented.kind \in {"calendar", "listTypeError"}
                     /\ navigateTo("newTask", Null)
ImportExportClick == presented.kind \in {"calendar", "listTypeError"}
                     /\ navigateTo("importExport", Null)
EditEventClick    == presented.kind = "detail" /\ presented.type = "event"
                     /\ navigateTo("editEvent", selectedEvent)
EditTaskClick     == presented.kind = "detail" /\ presented.type = "task"
                     /\ navigateTo("editTask", selectedTask)

(***************************************************************************)
(* The event and task forms, and saveEvent / saveTask of data-service.     *)
(***************************************************************************)
IsAutoId(id) == Includes(AutoIds, id)
AutoIndex(id) == CHOOSE k \in DOMAIN AutoIds : AutoIds[k] = id

\* the document behind doc(db, ..., id) in the owner's collection
StoredDoc(type, id) ==
    IF IsAutoId(id)
    THEN (IF AutoIndex(id) <= Len(added[type]) THEN added[type][AutoIndex(id)]
          ELSE NoDoc)
    ELSE store[type][id]

\* the collection after the document `id` is replaced by `written`
PutDoc(type, id, written) ==
    IF IsAutoId(id)
    THEN added' = [added EXCEPT ![type][AutoIndex(id)] = written] /\ UNCHANGED store
    ELSE store' = [store EXCEPT ![type][id] = written] /\ UNCHANGED added

IdleSave ==
    [pc |-> "idle", type |-> "none", id |-> "none", data |-> NoWrite,
     outcome |-> "none"]

\* the values typed into the date input of a form
FormDates == {<<2025, 3, 3>>}

\* editingEventState ? editingEventState.id : null
EditingId(editing) == IF editing = Null THEN "none" ELSE editing.id

\* editingEventState ? editingEventState.completedOccurrences || [] : []
EditingOccurrences(editing) ==
    IF editing = Null THEN <<>> ELSE editing.completedOccurrences

\* the fields of eventData / taskData the documents of the model carry
EventFormData(editing, date) ==
    [date |-> date, completedOccurrences |-> EditingOccurrences(editing)]
TaskFormData(editing, dueDate) ==
    [dueDate |-> dueDate, completedOccurrences |-> EditingOccurrences(editing)]

\* saveEvent / saveTask up to the first await: without a user id a toast and
\* nothing else, otherwise updateDoc (an id is given) or addDoc is issued
StartSave(type, id, data) ==
    /\ saveCall.pc \in {"idle", "done"}
    /\ userId \in {NoUser, Owner}
    /\ IF userId = NoUser
       THEN /\ showToast("Authentication error: No user ID.", "error")
            /\ saveCall' = [IdleSave EXCEPT !.pc = "done", !.type = type, !.id = id,
                                            !.data = data, !.outcome = "noUser"]
       ELSE /\ saveCall' = [IdleSave EXCEPT !.pc = IF id # "none" THEN "updateDoc"
                                                  ELSE "addDoc",
                                            !.type = type, !.id = id, !.data = data]
            /\ UNCHANGED toastVars

saveEvent(id, eventData) == StartSave("event", id, eventData)
saveTask(id, taskData)   == StartSave("task", id, taskData)

\* eventForm.onsubmit
EventFormSubmit(date) ==
    /\ showEventFormModalState
    /\ saveEvent(EditingId(editingEventState), EventFormData(editingEventState, date))
    /\ UNCHANGED <<markVars, dataVars, viewVars, authVars, modalVars, added,
                   importCall>>

\* taskForm.onsubmit
TaskFormSubmit(dueDate) ==
    /\ showTaskFormModalState
    /\ saveTask(EditingId(editingTaskState), TaskFormData(editingTaskState, dueDate))
    /\ UNCHANGED <<markVars, dataVars, viewVars, authVars, modalVars, added,
                   importCall>>

\* the toasts of saveEvent / saveTask
SavedToast(type, id) ==
    IF type = "event"
    THEN (IF id # "none" THEN "Event updated successfully!"
          ELSE "Event added successfully!")
    ELSE (IF id # "none" THEN "Task updated successfully!"
          ELSE "Task added successfully!")
SaveFailedToast(type) ==
    IF type = "event" THEN "Error saving event!" ELSE "Error saving task!"

\* the continuation of saveEvent / saveTask after `await updateDoc`: the write
\* is rejected when the document is gone; the modal state is not touched
SaveUpdateReturns ==
    /\ saveCall.pc = "updateDoc"
    /\ LET type == saveCall.type
           old == StoredDoc(type, saveCall.id)
       IN  IF old = NoDoc
           THEN /\ showToast(SaveFailedToast(type), "error")
                /\ saveCall' = [saveCall EXCEPT !.pc = "done", !.outcome = "failed"]
                /\ UNCHANGED <<store, added, modalVars>>
           ELSE /\ PutDoc(type, saveCall.id, MergeFields(old, saveCall.data))
                /\ showToast(SavedToast(type, saveCall.id), "success")
                /\ saveCall' = [saveCall EXCEPT !.pc = "done", !.outcome = "success"]
                /\ UNCHANGED modalVars
    /\ UNCHANGED <<store0, today, calls, confirmModal, dataVars, viewVars, authVars,
                   importCall>>

\* the continuation after `await addDoc`: { ...eventData, createdAt: new Date() }
SaveAddReturns ==
    /\ saveCall.pc = "addDoc"
    /\ LET type == saveCall.type
       IN  /\ Len(added[type]) < MaxAdded
           /\ added' = [added EXCEPT ![type] =
                           Append(@, MergeFields(BlankDoc, saveCall.data))]
           /\ showToast(SavedToast(type, saveCall.id), "success")
           /\ saveCall' = [saveCall EXCEPT !.pc = "done", !.outcome = "success"]
           /\ UNCHANGED modalVars
    /\ UNCHANGED <<store, store0, today, calls, confirmModal, dataVars, viewVars,
                   authVars, importCall>>

(***************************************************************************)
(* import-export: importAllData.  The text parses to an object that may    *)
(* carry an `events` array and a `tasks` array, or does not parse.         *)
(***************************************************************************)
Absent == [present |-> FALSE, docs |-> <<>>]
Array(docs) == [present |-> TRUE, docs |-> docs]

\* the texts pasted into the import text area
ImportTexts ==
    {[valid |-> FALSE, event |-> Absent, task |-> Absent],
     [valid |-> TRUE,  event |-> Absent, task |-> Absent],
     [valid |-> TRUE,  event |-> Array(<<WeeklyDoc>>), task |-> Absent],
     [valid |-> TRUE,  event |-> Array(<<>>), task |-> Array(<<FormTaskDoc>>)],
     [valid |-> TRUE,  event |-> Array(<<SingleDoc, MonthlyDoc>>),
                       task |-> Array(<<DailyDoc>>)]}

IdleImport ==
    [pc |-> "idle", json |-> [valid |-> FALSE, event |-> Absent, task |-> Absent],
     kind |-> "none", existing |-> <<>>, todo |-> <<>>, outcome |-> "none",
     found |-> [type \in Types |-> {}], created |-> [type \in Types |-> 0]]

\* a start that does not look at the user id
ImportStart_NoUserCheck(uid, json) ==
    IF ~json.valid THEN "error"
    ELSE IF json.event.present THEN "event"
    ELSE IF json.task.present THEN "task"
    ELSE "nothing"

\* importAllData up to its first await: the user id is tested, the text is
\* parsed, and the first array found decides the collection read first
ImportStart(uid, json) ==
    IF uid = NoUser THEN "noUser"
    ELSE IF ~json.valid THEN "error"
    ELSE IF json.event.present THEN "event"
    ELSE IF json.task.present THEN "task"
    ELSE "nothing"

ImportErrorToast(outcome) ==
    IF outcome = "noUser"
    THEN "Authentication error: No user ID. Cannot import data."
    ELSE "Error importing data. Make sure it is valid JSON."

ImportedToast(kind) ==
    IF kind = "event" THEN "Imported ${data.events.length} events."
    ELSE "Imported ${data.tasks.length} tasks."

\* closeImportExportModal() at the end of a successful import
ImportCloses(call) ==
    /\ importCall' = [call EXCEPT !.pc = "done", !.outcome = "success"]
    /\ showImportExportModalState' = FALSE
    /\ renderApp
    /\ UNCHANGED <<currentTab, currentCalendarDate, selectedEvent, selectedTask,
                   dayDetail, showEventFormModalState, editingEventState,
                   showTaskFormModalState, editingTaskState, dateForNewEntry>>

ImportAwaits(call) ==
    /\ importCall' = call
    /\ UNCHANGED <<viewVars, modalVars>>

\* an import that adds the new documents before it deletes the old ones
ImportContinue_AddFirst(call) ==
    IF call.todo # <<>>
    THEN ImportAwaits([call EXCEPT !.pc = "addDoc"]) /\ UNCHANGED toastVars
    ELSE IF call.existing # <<>>
    THEN ImportAwaits([call EXCEPT !.pc = "deleteDoc"]) /\ UNCHANGED toastVars
    ELSE /\ showToast(ImportedToast(call.kind), "success")
         /\ IF call.kind = "event" /\ call.json.task.present
            THEN ImportAwaits([call EXCEPT !.pc = "getDocs", !.kind = "task"])
            ELSE ImportCloses(call)

\* the call from the point where `call.existing` is left to delete and
\* `call.todo` to add, up to the next await
ImportContinue(call) ==
    IF call.existing # <<>>
    THEN ImportAwaits([call EXCEPT !.pc = "deleteDoc"]) /\ UNCHANGED toastVars
    ELSE IF call.todo # <<>>
    THEN ImportAwaits([call EXCEPT !.pc = "addDoc"]) /\ UNCHANGED toastVars
    ELSE /\ showToast(ImportedToast(call.kind), "success")
         /\ IF call.kind = "event" /\ call.json.task.present
            THEN ImportAwaits([call EXCEPT !.pc = "getDocs", !.kind = "task"])
            ELSE ImportCloses(call)

importAllData(jsonData) ==
    /\ importCall.pc \in {"idle", "done"}
    /\ userId \in {NoUser, Owner}
    /\ LET start == ImportStart(userId, jsonData)
           call == [IdleImport EXCEPT !.json = jsonData]
       IN  IF start \in {"noUser", "error"}
           THEN /\ showToast(ImportErrorToast(start), "error")
                /\ ImportAwaits([call EXCEPT !.pc = "done", !.outcome = start])
           ELSE IF start = "nothing"
           THEN ImportCloses(call) /\ UNCHANGED toastVars
           ELSE ImportAwaits([call EXCEPT !.pc = "getDocs", !.kind = start])
                /\ UNCHANGED toastVars
    /\ UNCHANGED <<markVars, dataVars, authVars, added, saveCall>>

\* the continuation after `await getDocs(query(collectionRef))`
ImportGetDocsReturns ==
    /\ importCall.pc = "getDocs"
    /\ LET kind == importCall.kind
           docs == Snapshot(kind)
           ids == [k \in DOMAIN docs |-> docs[k].id]
       IN  ImportContinue([importCall EXCEPT !.existing = ids,
                                             !.todo = importCall.json[kind].docs,
                                             !.found[kind] = SeqToSet(ids)])
    /\ UNCHANGED <<markVars, dataVars, authVars, added, saveCall>>

\* the continuation after `await deleteDoc(doc.ref)`
ImportDeleteReturns ==
    /\ importCall.pc = "deleteDoc"
    /\ PutDoc(importCall.kind, Head(importCall.existing), NoDoc)
    /\ ImportContinue([importCall EXCEPT !.existing = Tail(@)])
    /\ UNCHANGED <<store0, today, calls, confirmModal, dataVars, authVars, saveCall>>

\* the continuation after `await addDoc(collectionRef, { ...event, createdAt })`
ImportAddReturns ==
    /\ importCall.pc = "addDoc"
    /\ LET kind == importCall.kind
       IN  /\ Len(added[kind]) < MaxAdded
           /\ added' = [added EXCEPT ![kind] = Append(@, Head(importCall.todo))]
           /\ ImportContinue([importCall EXCEPT !.todo = Tail(@),
                                                !.created[kind] = @ + 1])
    /\ UNCHANGED <<markVars, dataVars, authVars, saveCall>>

(***************************************************************************)
(* firebase-setup: the onAuthStateChanged listener, and handleSignOut.     *)
(* The three awaits of the signed-in branch wait for values that are not   *)
(* promises, so the branch runs before any other callback.                 *)
(***************************************************************************)
\* fetchEvents() and fetchTasks() with a user id: one more onSnapshot
\* listener on each collection; nothing unsubscribes an earlier one
fetchBoth(uid) ==
    listeners' = [type \in Types |-> Append(listeners[type], uid)]

\* the listener is called with a user: currentUser and userId are set, the
\* collections are fetched and renderAppCallback() is called; the callback
\* app.js passes as fourth argument of setRenderCallbacks is not kept
AuthReportsUser(user) ==
    /\ user # authUser
    /\ user = Anonymous => signInPending # "none"
    /\ \A type \in Types : Len(listeners[type]) < MaxListeners
    /\ authUser' = user
    /\ userId' = user
    /\ signInPending' = IF user = Anonymous THEN "none" ELSE signInPending
    /\ fetchBoth(user)
    /\ currentView' = AuthChecked(user, currentView)
    /\ Render(currentView', currentTab, currentCalendarDate, selectedEvent,
              selectedTask)
    /\ UNCHANGED <<markVars, dataVars, modalVars, toastVars, writeVars, currentTab,
                   currentCalendarDate, selectedEvent, selectedTask, dayDetail>>

\* the listener is called with null when the page loads without a session:
\* an anonymous sign-in is started and nothing is rendered
AuthReportsNoUser ==
    /\ authUser = NoUser
    /\ signInPending = "initial"
    /\ signInPending' = "listener"
    /\ UNCHANGED <<markVars, dataVars, viewVars, modalVars, toastVars, writeVars,
                   authUser, userId, listeners>>

\* handleSignOut: signOut(auth) resolves, the listener is called with null
\* and starts an anonymous sign-in; userId keeps the uid signed out
handleSignOut ==
    /\ authUser # NoUser
    /\ authUser' = NoUser
    /\ signInPending' = "listener"
    /\ showToast("Signed out successfully!", "success")
    /\ UNCHANGED <<markVars, dataVars, viewVars, modalVars, writeVars, userId,
                   listeners>>

\* signInAnonymously rejects: the listener's catch takes a random user id and
\* renders; the attempt of initializeFirebase has no catch
SignInFails ==
    /\ signInPending # "none"
    /\ signInPending' = "none"
    /\ IF signInPending = "listener"
       THEN /\ userId' = RandomUUID
            /\ renderApp
       ELSE UNCHANGED <<userId, currentView, presented>>
    /\ UNCHANGED <<markVars, dataVars, modalVars, toastVars, writeVars, authUser,
                   listeners, currentTab, currentCalendarDate, selectedEvent,
                   selectedTask, dayDetail>>

FetchErrorToast(type) ==
    IF type = "event" THEN "Error fetching events!" ELSE "Error fetching tasks!"

\* the error callback of onSnapshot: the backend may end the listener of a
\* user who is no longer signed in (the security rules are not in the
\* repository), or leave it active
ListenerError(type, k) ==
    /\ k \in DOMAIN listeners[type]
    /\ listeners[type][k] # authUser
    /\ listeners' = [listeners EXCEPT ![type] =
                        SubSeq(@, 1, k - 1) \o SubSeq(@, k + 1, Len(@))]
    /\ showToast(FetchErrorToast(type), "error")
    /\ UNCHANGED <<markVars, dataVars, viewVars, modalVars, writeVars, authUser,
                   userId, signInPending>>

NothingPushed ==
    [type \in Types |-> [pushed |-> FALSE, docs |-> <<>>, replaced |-> FALSE,
                         uid |-> NoUser]]

\* no modal is open, no toast is shown, no form or import is in flight
Quiet ==
    /\ showEventFormModalState = FALSE
    /\ editingEventState = Null
    /\ showTaskFormModalState = FALSE
    /\ editingTaskState = Null
    /\ showImportExportModalState = FALSE
    /\ dateForNewEntry = NoDate
    /\ toasts = <<>>
    /\ toastsShown = 0
    /\ notificationTimeoutId = NoTimeout
    /\ added = [type \in Types |-> <<>>]
    /\ saveCall = IdleSave
    /\ importCall = IdleImport

\* the owner is signed in and fetchEvents / fetchTasks registered its listeners
SignedIn ==
    /\ authUser = Owner
    /\ userId = Owner
    /\ signInPending = "none"
    /\ listeners = [type \in Types |-> <<Owner>>]

Clocks ==
    {[local |-> <<2025, 1, 31>>, utc |-> <<2025, 1, 31>>],
     [local |-> <<2025, 3, 2>>,  utc |-> <<2025, 3, 3>>]}

InitStores ==
    {[event |-> [e1 |-> d1, e2 |-> d2], task |-> [t1 |-> dt]] :
        d1 \in {DailyDoc, WeeklyDoc, MonthlyDoc, SingleDoc, FormEventDoc, EditedDoc},
        d2 \in {NoDoc},
        dt \in {DailyDoc, FormTaskDoc}}

\* the state window.onload leaves, but for the session
LoadedWith(clocks, stores) ==
    /\ today \in clocks
    /\ store \in stores
    /\ store0 = store
    /\ calls = [c \in CallIds |-> IdleCall]
    /\ confirmModal = ClosedModal
    /\ dsEvents = <<>>
    /\ dsTasks = <<>>
    /\ appEvents = <<>>
    /\ appTasks = <<>>
    /\ lastPushed = NothingPushed
    /\ currentView = "loading"
    /\ currentTab = "calendar"
    /\ currentCalendarDate = DateOfString(today.local)
    /\ selectedEvent = Null
    /\ selectedTask = Null
    /\ presented = [kind |-> "spinner"]
    /\ dayDetail = NoDayDetail
    /\ Quiet

\* the page was loaded, nobody is signed in yet: the listener was not called
\* and the sign-in attempt of initializeFirebase is in flight
Booting ==
    /\ authUser = NoUser
    /\ userId = NoUser
    /\ signInPending = "initial"
    /\ listeners = [type \in Types |-> <<>>]

Init == LoadedWith(Clocks, InitStores) /\ SignedIn

\* one clock, an imported daily event and a task made with the task form
SessionClocks == {[local |-> <<2025, 3, 2>>, utc |-> <<2025, 3, 3>>]}
SessionStores ==
    {[event |-> [e1 |-> d1, e2 |-> NoDoc], task |-> [t1 |-> FormTaskDoc]] :
        d1 \in {DailyDoc, EditedDoc}}

InitSession == LoadedWith(SessionClocks, SessionStores) /\ SignedIn

InitBoot == LoadedWith(SessionClocks, SessionStores) /\ Booting

(***************************************************************************)
(* Specifications.                                                         *)
(***************************************************************************)
IdSet(type) == SeqToSet(IdsOf(type))

ClickAny == \E type \in Types : \E id \in IdSet(type) : \E date \in ButtonDates :
                HandleMarkDoneClick(type, id, date)
EventOccAny == \E id \in IdSet("event") : markEventOccurrenceDone(id)
TaskOccAny  == \E id \in IdSet("task") : markTaskOccurrenceDone(id)
GetDocAny    == \E c \in CallIds : GetDocReturns(c)
UpdateDocAny == \E c \in CallIds : UpdateDocReturns(c)
DeleteAny    == (\E id \in IdSet("event") : deleteEvent(id))
                \/ (\E id \in IdSet("task") : deleteTask(id))
OpenDetailAny == (\E id \in IdSet("event") : OpenEventDetail(id))
                 \/ (\E id \in IdSet("task") : OpenTaskDetail(id))
SelectTabAny  == \E tab \in {"calendar", "list"} : SelectTab(tab)
DayClickAny   == \E day \in {1, 2, 31} : DayClick(day)

EventSubmitAny == \E date \in FormDates : EventFormSubmit(date)
TaskSubmitAny  == \E dueDate \in FormDates : TaskFormSubmit(dueDate)
ImportAny      == \E jsonData \in ImportTexts : importAllData(jsonData)
Users          == {Owner, Anonymous}
AuthUserAny    == \E user \in Users : AuthReportsUser(user)
ListenerErrorAny == \E type \in Types : \E k \in 1 .. MaxListeners :
                        ListenerError(type, k)
PushEventsAny  == \E uid \in Users : PushEventsOf(uid)
PushTasksAny   == \E uid \in Users : PushTasksOf(uid)

NoCallInFlight == \A c \in CallIds : calls[c].pc \in {"idle", "done"}

\* every operation
Next ==
    \/ ClickAny \/ DetailMarkDoneClick \/ CancelMarkDone \/ ConfirmMarkDone
    \/ EventOccAny \/ TaskOccAny \/ GetDocAny \/ UpdateDocAny
    \/ DeleteAny \/ PushEvents \/ PushTasks
    \/ OpenDetailAny \/ BackToLanding \/ SelectTabAny
    \/ PrevYear \/ NextYear \/ PrevMonth \/ NextMonth \/ TodayButton
    \/ DayClickAny
    \/ NewEventClick \/ NewTaskClick \/ ImportExportClick
    \/ EditEventClick \/ EditTaskClick
    \/ closeEventFormModal \/ closeTaskFormModal \/ closeImportExportModal
    \/ EventSubmitAny \/ TaskSubmitAny \/ SaveUpdateReturns \/ SaveAddReturns
    \/ ImportAny \/ ImportGetDocsReturns \/ ImportDeleteReturns \/ ImportAddReturns
    \/ ExportJsonClick \/ ToastTimeout
    \/ AuthUserAny \/ AuthReportsNoUser \/ handleSignOut \/ SignInFails
    \/ ListenerErrorAny \/ PushEventsAny \/ PushTasksAny

Spec == Init /\ [][Next]_vars

\* the mark-done round trips alone, interleaved at their await points
NextMark ==
    \/ ClickAny \/ CancelMarkDone \/ ConfirmMarkDone
    \/ EventOccAny \/ TaskOccAny \/ GetDocAny \/ UpdateDocAny

SpecMark == Init /\ [][NextMark]_vars

\* the mark-done round trips one after the other
NextSeq ==
    \/ ClickAny \/ CancelMarkDone
    \/ (NoCallInFlight /\ ConfirmMarkDone)
    \/ (NoCallInFlight /\ EventOccAny)
    \/ (NoCallInFlight /\ TaskOccAny)
    \/ GetDocAny \/ UpdateDocAny

SpecSeq == Init /\ [][NextSeq]_vars

\* mark-done issued from the detail views only
NextDetail ==
    \/ PushEvents \/ PushTasks \/ OpenDetailAny \/ BackToLanding
    \/ DetailMarkDoneClick \/ CancelMarkDone \/ ConfirmMarkDone
    \/ GetDocAny \/ UpdateDocAny

SpecDetail == Init /\ [][NextDetail]_vars

\* mark-done writes and the pushes that follow them, on the landing page
NextSync ==
    \/ ClickAny \/ CancelMarkDone \/ ConfirmMarkDone \/ GetDocAny \/ UpdateDocAny
    \/ PushEvents \/ PushTasks \/ BackToLanding

SpecSync == Init /\ [][NextSync]_vars

\* the calendar controls, the tabs and the pushes
NextCal ==
    \/ DeleteAny \/ PushEvents \/ PushTasks
    \/ OpenDetailAny \/ BackToLanding \/ SelectTabAny
    \/ PrevYear \/ NextYear \/ PrevMonth \/ NextMonth \/ TodayButton

SpecCal == Init /\ [][NextCal]_vars

(***************************************************************************)
(* The calendar on its own: the clock and the documents are drawn from     *)
(* wider sets, both snapshots are pushed and the calendar is stepped.      *)
(***************************************************************************)
GridClocks ==
    {[local |-> d, utc |-> d] :
        d \in {<<1900, 3, 1>>, <<2000, 2, 29>>, <<2024, 2, 29>>, <<2025, 1, 31>>}}

GridStores ==
    {[event |-> [e1 |-> d1, e2 |-> d2], task |-> [t1 |-> dt]] :
        d1 \in {DailyDoc, WeeklyDoc, MonthlyDoc, YearlyDoc, SingleDoc, FormEventDoc},
        d2 \in {NoDoc, SingleDoc, EditedDoc},
        dt \in {DailyDoc, FormTaskDoc}}

InitGrid ==
    /\ today \in GridClocks
    /\ store \in GridStores
    /\ store0 = store
    /\ calls = [c \in CallIds |-> IdleCall]
    /\ confirmModal = ClosedModal
    /\ dsEvents = <<>>
    /\ dsTasks = <<>>
    /\ appEvents = <<>>
    /\ appTasks = <<>>
    /\ lastPushed = NothingPushed
    /\ currentView = "loading"
    /\ currentTab = "calendar"
    /\ currentCalendarDate = DateOfString(today.local)
    /\ selectedEvent = Null
    /\ selectedTask = Null
    /\ presented = [kind |-> "spinner"]
    /\ dayDetail = NoDayDetail
    /\ Quiet
    /\ SignedIn

NextGrid ==
    \/ PushEvents \/ PushTasks \/ BackToLanding
    \/ PrevYear \/ NextYear \/ PrevMonth \/ NextMonth \/ TodayButton

\* the calendar's day cells and the list tab
NextDay ==
    \/ PushEvents \/ PushTasks \/ BackToLanding \/ SelectTabAny \/ DayClickAny

SpecDay == InitGrid /\ [][NextDay]_vars

SpecGrid == InitGrid /\ [][NextGrid]_vars

(***************************************************************************)
(* The forms: the buttons that open a modal, the forms' submit and the     *)
(* saves they start, with the pushes and the detail views.                 *)
(***************************************************************************)
NextForm ==
    \/ PushEvents \/ OpenEventDetail("e1") \/ BackToLanding
    \/ NewEventClick \/ NewTaskClick \/ EditEventClick
    \/ closeEventFormModal \/ closeTaskFormModal
    \/ EventSubmitAny \/ TaskSubmitAny \/ SaveUpdateReturns \/ SaveAddReturns

SpecForm == InitSession /\ [][NextForm]_vars

(***************************************************************************)
(* The toasts of the import / export modal and of sign-out.                *)
(* The timer of a toast fires if it is not cancelled: setTimeout callbacks *)
(* are run by the event loop.                                              *)
(***************************************************************************)
NextToast ==
    \/ BackToLanding \/ ImportExportClick \/ closeImportExportModal
    \/ ExportJsonClick \/ ToastTimeout
    \/ handleSignOut

SpecToast == InitSession /\ [][NextToast]_vars /\ WF_vars(ToastTimeout)

(***************************************************************************)
(* The import: importAllData and its awaits, started with the owner signed *)
(* in or before anybody is, with the modal, the pushes and the navigation. *)
(***************************************************************************)
InitImport ==
    /\ LoadedWith(SessionClocks, SessionStores)
    /\ (SignedIn \/ Booting)

NextImport ==
    \/ ImportAny \/ ImportGetDocsReturns \/ ImportDeleteReturns \/ ImportAddReturns
    \/ BackToLanding \/ ImportExportClick \/ closeImportExportModal
    \/ PushEvents \/ PushTasks

SpecImport == InitImport /\ [][NextImport]_vars

(***************************************************************************)
(* The session: the page is loaded, the auth listener reports users, the   *)
(* user signs out, listeners are registered and push.  What is queued is   *)
(* run by the event loop: the first report of the listener, the settling   *)
(* of a sign-in that was started, the push of an active listener.          *)
(***************************************************************************)
NextAuth ==
    \/ AuthUserAny \/ AuthReportsNoUser \/ handleSignOut \/ SignInFails
    \/ ListenerErrorAny \/ PushEventsAny \/ PushTasksAny

SpecAuth == InitBoot /\ [][NextAuth]_vars

SpecAuthFair ==
    InitBoot /\ [][NextAuth]_vars
    /\ WF_vars(AuthReportsNoUser \/ AuthReportsUser(Anonymous) \/ SignInFails)
    /\ WF_vars(PushEventsAny) /\ WF_vars(PushTasksAny)

(***************************************************************************)
(* Properties.                                                             *)
(***************************************************************************)
Done(c) == calls[c].pc = "done"

SameTarget(a, b) ==
    /\ a.entry = b.entry /\ a.type = b.type /\ a.id = b.id /\ a.date = b.date

\* the array of completed dates an entry point maintains
CompletedSet(entry, doc) ==
    IF entry = "click" THEN doc.completedOccurrencesDates
    ELSE doc.completedOccurrences

TracksDates(entry, doc) == entry # "click" \/ IsRecurring(doc)

OkToasts == {"success", "info"}

\* C1: marking the same occurrence done a second time, after the first call
\* has completed, leaves the document exactly as the first call left it and
\* reports no error; the first call put the date in the completed set exactly
\* once and added or removed no other date.  For every entry point.
C1_MarkDoneIdempotent ==
    \A c1, c2 \in CallIds :
        LET a == calls[c1]
            b == calls[c2]
        IN  (/\ c1 # c2 /\ Done(c1) /\ Done(c2) /\ SameTarget(a, b)
             /\ a.pre # NoDoc /\ b.pre = a.post)
            => /\ b.post = a.post
               /\ b.toast \in OkToasts
               /\ TracksDates(a.entry, a.pre) =>
                    /\ Count(CompletedSet(a.entry, a.post), a.date) = 1
                    /\ SeqToSet(CompletedSet(a.entry, a.post))
                         = SeqToSet(CompletedSet(a.entry, a.pre)) \cup {a.date}
               /\ ~TracksDates(a.entry, a.pre) => a.post.isCompleted

\* a recurring entity marked twice for one date from the confirm modal: the
\* first call wrote, the second found the date and wrote nothing
C1_Witness ==
    \E c1, c2 \in CallIds :
        /\ c1 # c2 /\ Done(c1) /\ Done(c2) /\ SameTarget(calls[c1], calls[c2])
        /\ calls[c1].entry = "click" /\ calls[c1].pre # NoDoc
        /\ IsRecurring(calls[c1].pre)
        /\ calls[c1].wrote /\ calls[c2].pre = calls[c1].post /\ ~calls[c2].wrote

\* markDone(entity, date) of the completion tracker, applied once
MarkedOnce(doc, entry, date) ==
    IF TracksDates(entry, doc)
    THEN IF Includes(CompletedSet(entry, doc), date) THEN doc
         ELSE IF entry = "click"
         THEN [doc EXCEPT !.completedOccurrencesDates = Append(@, date)]
         ELSE [doc EXCEPT !.completedOccurrences = Append(@, date)]
    ELSE [doc EXCEPT !.isCompleted = TRUE]

\* every call that was started on the document of call c is done and has c's target
OnlyTarget(c) ==
    \A o \in CallIds :
        (calls[o].pc # "idle" /\ calls[o].type = calls[c].type
         /\ calls[o].id = calls[c].id)
        => (Done(o) /\ SameTarget(calls[o], calls[c]))

\* C2: two mark-done calls for the same (entity, date), interleaved in any
\* order at their await points, leave the document as a single call would:
\* the date recorded once, nothing else changed, and neither call fails.
C2_ConcurrentSameOccurrence ==
    \A c1, c2 \in CallIds :
        LET a == calls[c1]
            b == calls[c2]
            doc0 == store0[a.type][a.id]
        IN  (/\ c1 # c2 /\ Done(c1) /\ Done(c2) /\ SameTarget(a, b)
             /\ OnlyTarget(c1) /\ doc0 # NoDoc)
            => /\ store[a.type][a.id] = MarkedOnce(doc0, a.entry, a.date)
               /\ a.toast \in OkToasts
               /\ b.toast \in OkToasts

\* both calls read the document before either wrote, and both wrote
C2_Witness ==
    \E c1, c2 \in CallIds :
        /\ c1 # c2 /\ Done(c1) /\ Done(c2) /\ SameTarget(calls[c1], calls[c2])
        /\ OnlyTarget(c1)
        /\ calls[c1].snap # NoDoc /\ calls[c1].snap = calls[c2].snap
        /\ IsRecurring(calls[c1].snap)
        /\ calls[c1].wrote /\ calls[c2].wrote

\* C3: a mark-done call whose document does not exist writes nothing and
\* reports a not-found failure to the caller, for every entry point.
C3_NotFoundReported ==
    \A c \in CallIds :
        (Done(c) /\ calls[c].snap = NoDoc)
        => (~calls[c].wrote /\ calls[c].toast = "notFound")

(***************************************************************************)
(* The recurrence rules, as the expander is specified: the reference the   *)
(* projection and the completed dates are compared with.                   *)
(***************************************************************************)
DateLeq(a, b) ==
    \/ a[1] < b[1]
    \/ (a[1] = b[1] /\ a[2] < b[2])
    \/ (a[1] = b[1] /\ a[2] = b[2] /\ a[3] <= b[3])

\* days from 0001-01-01 to the date, in the proleptic Gregorian calendar
DayNumber(date) ==
    LET y == date[1] - 1
    IN  365 * y + (y \div 4) - (y \div 100) + (y \div 400)
        + DaysBeforeMonth(date[1], date[2] - 1) + date[3]

Min(a, b) == IF a <= b THEN a ELSE b

MonthDates(year, month) ==
    {<<year, month + 1, day>> : day \in 1 .. MonthLength(year, month)}

WithinEnd(entity, date) == entity.endDate = NoDate \/ DateLeq(date, entity.endDate)

ExpectedDaily(entity, year, month) ==
    {date \in MonthDates(year, month) :
        DateLeq(entity.startDate, date) /\ WithinEnd(entity, date)}

ExpectedWeekly(entity, year, month) ==
    {date \in MonthDates(year, month) :
        /\ DateLeq(entity.startDate, date)
        /\ (DayNumber(date) - DayNumber(entity.startDate)) % 7 = 0
        /\ WithinEnd(entity, date)}

ExpectedMonthly(entity, year, month) ==
    LET start == entity.startDate
        date == <<year, month + 1, Min(start[3], MonthLength(year, month))>>
    IN  IF /\ DateLeq(<<start[1], start[2], 1>>, date)
           /\ (entity.endDate = NoDate
               \/ DateLeq(<<year, month + 1, 1>>, entity.endDate))
        THEN {date} ELSE {}

\* date is an occurrence of the entity's rule on or after its startDate
IsValidOccurrence(entity, date) ==
    /\ entity.startDate # NoDate
    /\ DateLeq(entity.startDate, date)
    /\ CASE entity.recurrence = "daily" -> TRUE
         [] entity.recurrence = "weekly" ->
                (DayNumber(date) - DayNumber(entity.startDate)) % 7 = 0
         [] entity.recurrence = "monthly" ->
                date[3] = Min(entity.startDate[3], MonthLength(date[1], date[2] - 1))
         [] entity.recurrence = "yearly" ->
                /\ date[2] = entity.startDate[2]
                /\ date[3] = Min(entity.startDate[3],
                                 MonthLength(date[1], date[2] - 1))
         [] OTHER -> FALSE

\* the entities of both collections, tagged as the projection tags them
AppEntities == SeqToSet(TagAll("event", appEvents)) \cup SeqToSet(TagAll("task", appTasks))

\* the dates of the presented month on which the page has an occurrence of the entity
OccurrenceDates(page, entity) ==
    {date \in DOMAIN page.occurrences :
        \E i \in DOMAIN page.occurrences[date] :
            /\ page.occurrences[date][i].type = entity.type
            /\ page.occurrences[date][i].id = entity.id}

\* the page reports the entity's occurrence on the date as completed
ReportedCompleted(page, entity, date) ==
    \E i \in DOMAIN page.occurrences[date] :
        /\ page.occurrences[date][i].type = entity.type
        /\ page.occurrences[date][i].id = entity.id
        /\ page.occurrences[date][i].isCompleted

\* every occurrence of the entity on the page carries isOccurrence = true
FlaggedAsOccurrence(page, entity) ==
    \A date \in DOMAIN page.occurrences :
        \A i \in DOMAIN page.occurrences[date] :
            LET o == page.occurrences[date][i]
            IN  (o.type = entity.type /\ o.id = entity.id)
                => ("isOccurrence" \in DOMAIN o /\ o.isOccurrence)

\* C4: for a recurring entity of the current collection, the occurrence on a
\* date of the presented month is reported completed iff the date is a member
\* of the entity's completedOccurrencesDates.
C4_CompletedIffMember ==
    presented.kind = "calendar" =>
        \A entity \in AppEntities :
            IsRecurring(entity) =>
                \A date \in DOMAIN presented.occurrences :
                    ReportedCompleted(presented, entity, date)
                    <=> Includes(entity.completedOccurrencesDates, date)

\* C5: the completed dates of a recurring entity are valid occurrences of its
\* recurrence rule on or after its startDate, in every reachable state.
C5_CompletedDatesValid ==
    \A type \in Types : \A id \in IdSet(type) :
        LET doc == store[type][id]
        IN  (doc # NoDoc /\ IsRecurring(doc))
            => \A date \in SeqToSet(doc.completedOccurrencesDates) :
                   IsValidOccurrence(doc, date)

\* C6: once a snapshot was pushed, getEvents() / getTasks() and the app-level
\* events / tasks equal the most recently pushed snapshot in full.
C6_CollectionsAreLastPush ==
    /\ lastPushed.event.pushed =>
           (dsEvents = lastPushed.event.docs /\ appEvents = lastPushed.event.docs)
    /\ lastPushed.task.pushed =>
           (dsTasks = lastPushed.task.docs /\ appTasks = lastPushed.task.docs)

\* a push that replaced a non-empty collection by a different one
C6_Witness ==
    /\ lastPushed.event.pushed
    /\ lastPushed.event.replaced
    /\ appEvents = lastPushed.event.docs

C8_DailyExpansion ==
    presented.kind = "calendar" =>
        \A entity \in AppEntities :
            (entity.recurrence = "daily" /\ entity.startDate # NoDate)
            => /\ OccurrenceDates(presented, entity)
                    = ExpectedDaily(entity, presented.year, presented.month)
               /\ FlaggedAsOccurrence(presented, entity)

\* C9: a weekly entity has, in the presented month, exactly the dates that
\* are startDate + 7k days, k >= 0 (up to endDate when present).
C9_WeeklyExpansion ==
    presented.kind = "calendar" =>
        \A entity \in AppEntities :
            (entity.recurrence = "weekly" /\ entity.startDate # NoDate)
            => OccurrenceDates(presented, entity)
                   = ExpectedWeekly(entity, presented.year, presented.month)

\* C10: a monthly entity has, in a presented month on or after its
\* startDate's month, exactly one date, startDate's day clamped to the
\* month's last day; in earlier months it has none.
C10_MonthlyExpansion ==
    presented.kind = "calendar" =>
        \A entity \in AppEntities :
            (entity.recurrence = "monthly" /\ entity.startDate # NoDate)
            => OccurrenceDates(presented, entity)
                   = ExpectedMonthly(entity, presented.year, presented.month)

ExpectedYearly(entity, year, month) ==
    LET start == entity.startDate
    IN  IF /\ month + 1 = start[2]
           /\ year >= start[1]
           /\ (entity.endDate = NoDate \/ year <= entity.endDate[1])
        THEN {<<year, month + 1, Min(start[3], MonthLength(year, month))>>}
        ELSE {}

\* C11: a yearly entity has, in the presented month, the date with its
\* startDate's month and day (clamped to the month's last day) iff the month
\* is startDate's month and the year is within startDate's and endDate's
\* years; otherwise it has none.
C11_YearlyExpansion ==
    presented.kind = "calendar" =>
        \A entity \in AppEntities :
            (entity.recurrence = "yearly" /\ entity.startDate # NoDate)
            => OccurrenceDates(presented, entity)
                   = ExpectedYearly(entity, presented.year, presented.month)

ExpectedSingle(entity, year, month) ==
    IF entity.startDate \in MonthDates(year, month) THEN {entity.startDate} ELSE {}

\* how many occurrences of the entity the page has on the date
OccurrencesOn(page, entity, date) ==
    Cardinality({i \in DOMAIN page.occurrences[date] :
                    /\ page.occurrences[date][i].type = entity.type
                    /\ page.occurrences[date][i].id = entity.id})

\* C12: an entity with recurrence none has, in the presented month, exactly
\* one occurrence, on its startDate, when the startDate falls within the
\* month, and none otherwise.
C12_SingleExpansion ==
    presented.kind = "calendar" =>
        \A entity \in AppEntities :
            (entity.recurrence = "none" /\ entity.startDate # NoDate)
            => /\ OccurrenceDates(presented, entity)
                    = ExpectedSingle(entity, presented.year, presented.month)
               /\ \A date \in OccurrenceDates(presented, entity) :
                      OccurrencesOn(presented, entity, date) = 1

\* the dates of the entity's occurrences, in the order of the result's keys
ExpansionOf(page, entity) ==
    SelectSeq(page.keys, LAMBDA date : OccurrencesOn(page, entity, date) > 0)

StrictlyAscending(dates) ==
    \A i \in DOMAIN dates : \A j \in DOMAIN dates :
        i < j => (DateLeq(dates[i], dates[j]) /\ dates[i] # dates[j])

\* C13: for every entity, the dates of its occurrences in the presented
\* month lie inside that month, come in strictly ascending order and none
\* is there twice for the entity.
C13_ExpansionOrdered ==
    presented.kind = "calendar" =>
        /\ SeqToSet(presented.keys) = DOMAIN presented.occurrences
        /\ \A entity \in AppEntities :
            /\ SeqToSet(ExpansionOf(presented, entity))
                   \subseteq MonthDates(presented.year, presented.month)
            /\ StrictlyAscending(ExpansionOf(presented, entity))
            /\ \A date \in DOMAIN presented.occurrences :
                   OccurrencesOn(presented, entity, date) <= 1

\* a month with two entities on its dates, one of them on a date of its own
C13_Witness ==
    /\ presented.kind = "calendar"
    /\ Len(presented.keys) = 31
    /\ \E a \in AppEntities : \E b \in AppEntities :
           /\ a # b
           /\ Len(ExpansionOf(presented, a)) = 1
           /\ Len(ExpansionOf(presented, b)) = 1

Recurrences == {"none", "daily", "weekly", "monthly", "yearly"}

\* the entity has no startDate or a recurrence value that is not one of the rules
Unusable(entity) == entity.startDate = NoDate \/ entity.recurrence \notin Recurrences

\* the month of the page projected from one entity alone
AloneDates(page, type, entity) ==
    LET date == [y |-> page.year, m |-> page.month, d |-> 1]
        alone == IF type = "event" THEN CalendarPage(date, <<entity>>, <<>>)
                 ELSE CalendarPage(date, <<>>, <<entity>>)
    IN  OccurrenceDates(alone, Tagged(type, entity))

FailsSoft(page, type, entities) ==
    \A k \in DOMAIN entities :
        IF Unusable(entities[k])
        THEN OccurrenceDates(page, Tagged(type, entities[k])) = {}
        ELSE OccurrenceDates(page, Tagged(type, entities[k]))
                 = AloneDates(page, type, entities[k])

\* C14: an entity without a usable startDate or recurrence has no occurrence
\* in the presented month, and every other entity of the collections has
\* exactly the occurrences it has when projected alone.
C14_InvalidEntityFailsSoft ==
    presented.kind = "calendar" =>
        /\ FailsSoft(presented, "event", appEvents)
        /\ FailsSoft(presented, "task", appTasks)

\* the Gregorian length of the 0-indexed month, from the leap-year rule
GregorianDays(year, month) ==
    IF month = 1
    THEN (IF year % 4 = 0 /\ (year % 100 # 0 \/ year % 400 = 0) THEN 29 ELSE 28)
    ELSE IF month \in {3, 5, 8, 10} THEN 30 ELSE 31

\* the weekday (0 for Sunday) of the first of the month, by Zeller's congruence
FirstWeekday(year, month) ==
    LET m == IF month < 2 THEN month + 13 ELSE month + 1
        y == IF month < 2 THEN year - 1 ELSE year
        h == (1 + ((13 * (m + 1)) \div 5) + (y % 100) + ((y % 100) \div 4)
                + ((y \div 100) \div 4) + 5 * (y \div 100)) % 7
    IN  (h + 6) % 7

\* the dates on which the projection of one collection has an occurrence
DatesOfEvents(year, month) ==
    {date \in MonthDates(year, month) :
        generateOccurrencesForMonth(year, month, appEvents, <<>>)[date] # <<>>}

DatesOfTasks(year, month) ==
    {date \in MonthDates(year, month) :
        generateOccurrencesForMonth(year, month, <<>>, appTasks)[date] # <<>>}

TimeKey(occurrence) ==
    IF "startTime" \in DOMAIN occurrence /\ occurrence.startTime # <<>>
    THEN occurrence.startTime ELSE <<0, 0>>

TimeLeq(a, b) == a[1] < b[1] \/ (a[1] = b[1] /\ a[2] <= b[2])

SortedByStartTime(list) ==
    \A i \in DOMAIN list : \A j \in DOMAIN list :
        i < j => TimeLeq(TimeKey(list[i]), TimeKey(list[j]))

\* the list holds exactly the occurrences the projection of the collection
\* has on the date
ExactlyOccurrencesOn(list, date, events, tasks) ==
    LET year == date[1]
        month == date[2] - 1
        onDate == generateOccurrencesForMonth(year, month, events, tasks)[date]
    IN  /\ Len(list) = Len(onDate)
        /\ \A i \in DOMAIN onDate : Count(list, onDate[i]) = Count(onDate, onDate[i])

\* C16: a click on a day answers with the two lists of that date, events and
\* tasks, each holding exactly the occurrences on the date and sorted
\* ascending by startTime, a missing startTime counting as 00:00.
C16_DayDetailLists ==
    dayDetail.status # "none" =>
        /\ dayDetail.status = "shown"
        /\ ExactlyOccurrencesOn(dayDetail.events, dayDetail.date, dsEvents, <<>>)
        /\ ExactlyOccurrencesOn(dayDetail.tasks, dayDetail.date, <<>>, dsTasks)
        /\ SortedByStartTime(dayDetail.events)
        /\ SortedByStartTime(dayDetail.tasks)

\* the sort key of an occurrence: (date, startTime or 00:00)
KeyLeq(a, b) ==
    \/ (DateLeq(a.startDate, b.startDate) /\ a.startDate # b.startDate)
    \/ (a.startDate = b.startDate /\ TimeLeq(TimeKey(a), TimeKey(b)))

SameKey(a, b) == a.startDate = b.startDate /\ TimeKey(a) = TimeKey(b)

\* the position of the occurrence's entity in the collection it comes from
PositionIn(entities, occurrence) ==
    CHOOSE k \in DOMAIN entities : entities[k].id = occurrence.id

OrderedAndStable(list, entities) ==
    \A i \in DOMAIN list : \A j \in DOMAIN list :
        i < j => /\ KeyLeq(list[i], list[j])
                 /\ SameKey(list[i], list[j])
                        => PositionIn(entities, list[i]) <= PositionIn(entities, list[j])

\* C17: the list tab presents the occurrences of the month ordered ascending
\* by (date, startTime or 00:00), occurrences of equal key in the order of
\* their entities in the collection.
C17_ListOrdered ==
    (currentView = "landing" /\ currentTab = "list") =>
        /\ presented.kind = "list"
        /\ OrderedAndStable(presented.events, appEvents)
        /\ OrderedAndStable(presented.tasks, appTasks)

\* C18: daysInMonth(year, month) is the Gregorian length of the month,
\* February having 29 days exactly in leap years; the calendar on the page
\* has that many days.
C18_DaysInMonth ==
    presented.kind = "calendar" =>
        /\ daysInMonth(presented.year, presented.month)
               = GregorianDays(presented.year, presented.month)
        /\ Len(presented.keys) = GregorianDays(presented.year, presented.month)
        /\ \A month \in 0 .. 11 :
               daysInMonth(presented.year, month) = GregorianDays(presented.year, month)

\* February of the leap year 2024 on the page, with 29 days
C18_Witness ==
    /\ presented.kind = "calendar"
    /\ presented.year = 2024 /\ presented.month = 1
    /\ Len(presented.keys) = 29
    /\ daysInMonth(2024, 1) = 29 /\ daysInMonth(2023, 1) = 28

\* the step lands `offset` months away, on the day clamped to the month's length
MonthStepClamped(offset) ==
    /\ currentCalendarDate'.y * 12 + currentCalendarDate'.m
           = currentCalendarDate.y * 12 + currentCalendarDate.m + offset
    /\ currentCalendarDate'.d
           = Min(currentCalendarDate.d,
                 GregorianDays(currentCalendarDate'.y, currentCalendarDate'.m))

\* C19: a step of the month buttons lands in the month exactly one month
\* away (carrying into the year), on the day of the month it started from,
\* clamped to the last day of the month it lands in.
C19_MonthStep ==
    [][/\ NextMonth => MonthStepClamped(1)
       /\ PrevMonth => MonthStepClamped(-1)]_vars

\* the step lands in the same month `offset` years away, on the clamped day
YearStepClamped(offset) ==
    /\ currentCalendarDate'.y = currentCalendarDate.y + offset
    /\ currentCalendarDate'.m = currentCalendarDate.m
    /\ currentCalendarDate'.d
           = Min(currentCalendarDate.d,
                 GregorianDays(currentCalendarDate'.y, currentCalendarDate'.m))

\* C20: a step of the year buttons lands in the same month of the year one
\* year away; Feb 29 lands on Feb 28 of a non-leap year, and the month on
\* the page does not change.
C20_YearStep ==
    [][/\ NextYear => YearStepClamped(1)
       /\ PrevYear => YearStepClamped(-1)]_vars

\* `back` undoes a step from `from`: the same date when the day existed in the
\* month stepped to, the same year and month in any case
Undoes(back, from, dayExisted) ==
    /\ back.y = from.y /\ back.m = from.m
    /\ dayExisted => back = from

\* the month `offset` months from the date's has the date's day
DayExistsAfterMonths(date, offset) ==
    LET months == date.y * 12 + date.m + offset
    IN  date.d <= GregorianDays(months \div 12, months % 12)

DayExistsAfterYears(date, offset) == date.d <= GregorianDays(date.y + offset, date.m)

\* C21: a step of the month (year) buttons followed by the opposite step
\* gives back the date it started from when the day of the month existed in
\* the month stepped to, and the year and month it started from in any case.
C21_StepsAreInverse ==
    [][/\ NextMonth => Undoes(changeCalendarMonth(-1, currentCalendarDate'),
                              currentCalendarDate,
                              DayExistsAfterMonths(currentCalendarDate, 1))
       /\ PrevMonth => Undoes(changeCalendarMonth(1, currentCalendarDate'),
                              currentCalendarDate,
                              DayExistsAfterMonths(currentCalendarDate, -1))
       /\ NextYear => Undoes(changeCalendarYear(-1, currentCalendarDate'),
                             currentCalendarDate,
                             DayExistsAfterYears(currentCalendarDate, 1))
       /\ PrevYear => Undoes(changeCalendarYear(1, currentCalendarDate'),
                             currentCalendarDate,
                             DayExistsAfterYears(currentCalendarDate, -1))]_vars

\* C26: two mark-done calls on the same recurring entity for two different
\* dates, interleaved in any order at their await points, both succeeding,
\* leave both dates in the stored set of completed dates.
C26_ConcurrentDifferentDates ==
    \A c1, c2 \in CallIds :
        LET a == calls[c1]
            b == calls[c2]
        IN  (/\ c1 # c2 /\ Done(c1) /\ Done(c2)
             /\ a.entry = b.entry /\ a.type = b.type /\ a.id = b.id
             /\ a.date # b.date
             /\ a.pre # NoDoc /\ b.pre # NoDoc /\ TracksDates(a.entry, a.pre)
             /\ a.toast \in OkToasts /\ b.toast \in OkToasts)
            => {a.date, b.date}
                 \subseteq SeqToSet(CompletedSet(a.entry, store[a.type][a.id]))

\* the entity of the last push with the id of the one selected, if it is there
Refreshed(selected, entities) ==
    IF selected = Null \/ FindById(entities, selected.id) = Null THEN selected
    ELSE FindById(entities, selected.id)

\* C29: while a detail view is shown, the entity it displays is the entity
\* with the same id in the collection pushed last: what the page presents
\* (fields, completion status, mark-done button) is built from that entity.
C29_DetailShowsRefreshed ==
    /\ (currentView = "eventDetail" /\ lastPushed.event.pushed)
        => /\ selectedEvent = Refreshed(selectedEvent, appEvents)
           /\ presented = DetailPage("event", Refreshed(selectedEvent, appEvents),
                                     today)
    /\ (currentView = "taskDetail" /\ lastPushed.task.pushed)
        => /\ selectedTask = Refreshed(selectedTask, appTasks)
           /\ presented = DetailPage("task", Refreshed(selectedTask, appTasks),
                                     today)

\* the views renderApp has a branch for
RenderedViews == {"loading", "auth", "landing", "eventDetail", "taskDetail"}

\* C22: in every reachable state with a user signed in, currentView is one of
\* loading, auth, landing, eventDetail, taskDetail, whatever targets navigateTo
\* was called with: renderApp never takes its default branch.
C22_ViewIsRendered == authUser # NoUser => currentView \in RenderedViews

\* a save of the form of `type` returns with success in this step
SaveSucceeds(type) ==
    /\ saveCall.pc \in {"updateDoc", "addDoc"}
    /\ saveCall.type = type
    /\ saveCall'.pc = "done"
    /\ saveCall'.outcome = "success"

\* C25: when the save started by the event (task) form succeeds, the form
\* modal is closed: showEventFormModalState (showTaskFormModalState) is false
\* and the editing state is null.
C25_FormClosedAfterSave ==
    [][/\ SaveSucceeds("event")
          => (~showEventFormModalState' /\ editingEventState' = Null)
       /\ SaveSucceeds("task")
          => (~showTaskFormModalState' /\ editingTaskState' = Null)]_vars

\* the toast numbered n is a child of the toast container
Shown(n) == \E k \in DOMAIN toasts : toasts[k].n = n

\* C27: every toast shown by showToast is eventually removed from the toast
\* container, however close in time the calls of showToast are.
C27_ToastsRemoved == \A n \in 1 .. MaxToasts : Shown(n) ~> ~Shown(n)

\* the documents of the owner's collection, without their ids
Contents(kind) ==
    LET docs == Snapshot(kind)
    IN  [k \in DOMAIN docs |-> StoredDoc(kind, docs[k].id)]

\* C24: for each kind the imported text carries, every document the
\* collection held is deleted before the first imported document is added,
\* and after a successful import the collection holds exactly the imported
\* entries.
C24_ImportReplaces ==
    \A kind \in Types :
        /\ importCall.created[kind] > 0
           => \A id \in importCall.found[kind] : StoredDoc(kind, id) = NoDoc
        /\ (importCall.pc = "done" /\ importCall.outcome = "success"
            /\ importCall.json[kind].present)
           => Contents(kind) = importCall.json[kind].docs

\* a successful import that found documents of both kinds and replaced them
C24_Witness ==
    /\ importCall.pc = "done" /\ importCall.outcome = "success"
    /\ \A kind \in Types : /\ importCall.found[kind] # {}
                            /\ importCall.created[kind] > 0

\* importAllData is called in this step
ImportCalled ==
    /\ importCall.pc \in {"idle", "done"}
    /\ importCall' # importCall

\* the step appends one toast of type 'error'
ErrorToastShown ==
    /\ Len(toasts') = Len(toasts) + 1
    /\ SubSeq(toasts', 1, Len(toasts)) = toasts
    /\ toasts'[Len(toasts')].type = "error"

\* C30: importAllData called without a user id, or with a text that is not
\* valid JSON, issues no delete and no add (the stored events and tasks are
\* unchanged and the call has ended), shows an error toast and leaves the
\* state of the import / export modal as it was.
C30_ImportRejected ==
    [][(ImportCalled /\ (userId = NoUser \/ ~importCall'.json.valid))
       => /\ store' = store /\ added' = added
          /\ importCall'.pc = "done"
          /\ importCall'.outcome \in {"noUser", "error"}
          /\ ErrorToastShown
          /\ showImportExportModalState' = showImportExportModalState]_vars

\* a text that is not JSON was submitted from the open modal, which is still
\* open, and nothing was deleted or added
C30_Witness ==
    /\ importCall.pc = "done" /\ importCall.outcome = "error"
    /\ showImportExportModalState
    /\ store = store0

\* C23: once the auth listener has reported a signed-in user, currentView
\* eventually becomes 'landing'; once it has reported that there is no user,
\* currentView eventually becomes 'auth'.
C23_LeavesLoading ==
    /\ (authUser # NoUser) ~> (currentView = "landing" \/ authUser = NoUser)
    /\ (authUser = NoUser /\ signInPending = "listener")
           ~> (currentView = "auth" \/ authUser # NoUser)

\* C28: after any sequence of auth-state changes each collection has at most
\* one active snapshot listener, bound to the current user id, and a push
\* that replaces the in-memory events or tasks comes from the listener of the
\* current user id.
C28_OneListenerPerCollection ==
    /\ [](\A type \in Types :
            /\ Len(listeners[type]) <= 1
            /\ \A k \in DOMAIN listeners[type] : listeners[type][k] = userId)
    /\ [][\A type \in Types :
            lastPushed'[type] # lastPushed[type]
            => lastPushed'[type].uid = userId]_vars

====
